---- MODULE Spec2Model ----
(***************************************************************************)
(* CCA supply schedule generator (supply-schedule/server.py).              *)
(*                                                                         *)
(* One tool call is followed from the arrival of its arguments through     *)
(* input validation, calculate_block_durations, the segment loop of        *)
(* generate_schedule and the response built by call_tool.                  *)
(*                                                                         *)
(* Float arithmetic is modelled by exact arithmetic on non-negative big    *)
(* integers (little-endian sequences of limbs in base Base):               *)
(*   - growth_factor 1.2 is the rational GrowthNum / GrowthDen, so the     *)
(*     durations b0 * 1.2^i are exact rationals and round() is decided     *)
(*     exactly (ties to even, as Python's round);                          *)
(*   - (t / T) ** 1.2 is the real fifth root of (t / T)^6, truncated to    *)
(*     FracLimbs limbs after the point.                                    *)
(* The real and the float result of round() differ only next to a tie;     *)
(* no duration or rate of the requests below lies within 1e-10 of one.     *)
(***************************************************************************)
EXTENDS Integers, Sequences, FiniteSets, TLC

\* ---------------------------------------------------------------------
\* Program constants
\* ---------------------------------------------------------------------
TOTAL_TARGET == 10000000
NUM_SEGMENTS == 10
\* GROWTH_EXPONENT = 1.2 = GrowthNum / GrowthDen
GrowthNum == 6
GrowthDen == 5
\* the literal 0.7 = FrontNum / FrontDen
FrontNum == 7
FrontDen == 10

\* ---------------------------------------------------------------------
\* Bounds of the model
\* ---------------------------------------------------------------------
MaxAuction == 13
MaxPrebid == 1
\* precision of the fixed-point model of float values
Base == 10000
FracLimbs == 3

\* the requests of test_logic.py
TestedRequests ==
    { <<14400, 0>>, <<43200, 0>>, <<86400, 0>>, <<604800, 0>>, <<86400, 43200>> }

Requests == ((0..MaxAuction) \X ((0 - 1)..MaxPrebid)) \cup TestedRequests

\* ---------------------------------------------------------------------
\* Non-negative big integers
\* ---------------------------------------------------------------------
Limb(a, i) == IF i <= Len(a) THEN a[i] ELSE 0

RECURSIVE BFromInt(_)
BFromInt(n) == IF n < Base THEN <<n>> ELSE <<n % Base>> \o BFromInt(n \div Base)

RECURSIVE BCmpFrom(_, _, _)
BCmpFrom(a, b, i) ==
    IF i = 0 THEN 0
    ELSE IF Limb(a, i) > Limb(b, i) THEN 1
    ELSE IF Limb(a, i) < Limb(b, i) THEN 0 - 1
    ELSE BCmpFrom(a, b, i - 1)

BCmp(a, b) == BCmpFrom(a, b, IF Len(a) > Len(b) THEN Len(a) ELSE Len(b))

RECURSIVE ColSum(_, _, _, _)
ColSum(a, b, k, i) ==
    IF i > Len(a) \/ i > k THEN 0
    ELSE (IF k - i + 1 <= Len(b) THEN a[i] * b[k - i + 1] ELSE 0)
         + ColSum(a, b, k, i + 1)

RECURSIVE Carry(_, _, _)
Carry(cols, k, c) ==
    IF k > Len(cols) THEN (IF c = 0 THEN <<>> ELSE BFromInt(c))
    ELSE LET t == cols[k] + c
         IN  <<t % Base>> \o Carry(cols, k + 1, t \div Base)

BMul(a, b) ==
    IF Len(a) <= Len(b)
    THEN Carry([k \in 1..(Len(a) + Len(b) - 1) |-> ColSum(a, b, k, 1)], 1, 0)
    ELSE Carry([k \in 1..(Len(a) + Len(b) - 1) |-> ColSum(b, a, k, 1)], 1, 0)

\* a - b for a >= b
RECURSIVE BSubFrom(_, _, _, _)
BSubFrom(a, b, i, borrow) ==
    IF i > Len(a) THEN <<>>
    ELSE LET t == a[i] - Limb(b, i) - borrow
         IN  IF t < 0 THEN <<t + Base>> \o BSubFrom(a, b, i + 1, 1)
             ELSE <<t>> \o BSubFrom(a, b, i + 1, 0)

BSub(a, b) == BSubFrom(a, b, 1, 0)

\* a * Base^n
BShift(a, n) == [i \in 1..n |-> 0] \o a

RECURSIVE BPow(_, _)
BPow(a, n) == IF n = 0 THEN <<1>> ELSE BMul(BPow(a, n - 1), a)

\* floor(num / den), searched in lo..hi
RECURSIVE FloorDiv(_, _, _, _)
FloorDiv(num, den, lo, hi) ==
    IF lo = hi THEN lo
    ELSE LET mid == lo + (hi - lo + 1) \div 2
         IN  IF BCmp(BMul(BFromInt(mid), den), num) <= 0
             THEN FloorDiv(num, den, mid, hi)
             ELSE FloorDiv(num, den, lo, mid - 1)

\* Python round(num / den): nearest integer, ties to the even one
RoundHalfEven(num, den) ==
    LET q    == FloorDiv(num, den, 0, 2^30)
        r    == BSub(num, BMul(BFromInt(q), den))
        half == BCmp(BMul(<<2>>, r), den)
    IN  IF half > 0 THEN q + 1
        ELSE IF half < 0 THEN q
        ELSE IF q % 2 = 0 THEN q ELSE q + 1

Max(x, y) == IF x >= y THEN x ELSE y

\* ---------------------------------------------------------------------
\* calculate_block_durations
\* ---------------------------------------------------------------------
\* geometric_sum = (g^n - 1) / (g - 1) with g = GrowthNum / GrowthDen,
\* as the rational GeoNum(n) / GeoDen(n)
GeoNum(n) ==
    BMul(BSub(BPow(BFromInt(GrowthNum), n), BPow(BFromInt(GrowthDen), n)),
         BFromInt(GrowthDen))

GeoDen(n) == BMul(BPow(BFromInt(GrowthDen), n), BFromInt(GrowthNum - GrowthDen))

\* duration_int of loop index i (0-based): max(1, round(b0 * g^i)),
\* b0 = total_blocks / geometric_sum
DurationInt(total_blocks, num_segments, i) ==
    Max(1, RoundHalfEven(
               BMul(BMul(BFromInt(total_blocks), GeoDen(num_segments)),
                    BPow(BFromInt(GrowthNum), i)),
               BMul(GeoNum(num_segments), BPow(BFromInt(GrowthDen), i))))

RECURSIVE SumSeq(_, _)
SumSeq(s, k) == IF k = 0 THEN 0 ELSE s[k] + SumSeq(s, k - 1)

\* the adjustment of the last segment
AdjustLast(durs, total_blocks) ==
    LET actual_total == SumSeq(durs, Len(durs))
    IN  IF actual_total # total_blocks
        THEN [durs EXCEPT ![Len(durs)] = Max(1, @ + (total_blocks - actual_total))]
        ELSE durs

\* ---------------------------------------------------------------------
\* generate_schedule
\* ---------------------------------------------------------------------
Phase(m, d) == [mps |-> m, blockDelta |-> d]

\* the prebid guard with >= for >
PrebidPhases_NonStrict(prebid_blocks) ==
    IF prebid_blocks >= 0 THEN << Phase(0, prebid_blocks) >> ELSE << >>

PrebidPhases(prebid_blocks) ==
    IF prebid_blocks > 0 THEN << Phase(0, prebid_blocks) >> ELSE << >>

\* largest digit d in lo..hi such that, with limb k of cur set to d,
\* cur^GrowthDen * den <= num
RECURSIVE FindDigit(_, _, _, _, _, _)
FindDigit(cur, k, lo, hi, num, den) ==
    IF lo = hi THEN lo
    ELSE LET mid  == (lo + hi + 1) \div 2
             cand == [cur EXCEPT ![k] = mid]
         IN  IF BCmp(BMul(BPow(cand, GrowthDen), den), num) <= 0
             THEN FindDigit(cur, k, mid, hi, num, den)
             ELSE FindDigit(cur, k, lo, mid - 1, num, den)

RECURSIVE RootFrom(_, _, _, _)
RootFrom(cur, k, num, den) ==
    IF k = 0 THEN cur
    ELSE RootFrom([cur EXCEPT ![k] = FindDigit(cur, k, 0, Base - 1, num, den)],
                  k - 1, num, den)

\* (block / blocks_for_segments) ** GROWTH_EXPONENT, in units of
\* Base^(-FracLimbs): the largest P with
\* P^GrowthDen * T^GrowthNum <= block^GrowthNum * Base^(FracLimbs * GrowthDen)
Pct(block, T) ==
    IF block = 0 THEN <<0>>
    ELSE RootFrom([k \in 1..(FracLimbs + 1) |-> 0], FracLimbs + 1,
                  BShift(BPow(BFromInt(block), GrowthNum), FracLimbs * GrowthDen),
                  BPow(BFromInt(T), GrowthNum))

\* the front share taken as 1 - 0.7
SegmentTokens_BackShare(start_block, end_block, T) ==
    BSub(BMul(Pct(end_block, T), BFromInt((FrontDen - FrontNum) * TOTAL_TARGET)),
         BMul(Pct(start_block, T), BFromInt((FrontDen - FrontNum) * TOTAL_TARGET)))

\* segment_tokens = end_tokens - start_tokens, in units of
\* Base^(-FracLimbs) / FrontDen
SegmentTokens(start_block, end_block, T) ==
    BSub(BMul(Pct(end_block, T), BFromInt(FrontNum * TOTAL_TARGET)),
         BMul(Pct(start_block, T), BFromInt(FrontNum * TOTAL_TARGET)))

\* mps of the segment start_block .. start_block + block_delta
SegmentMps(start_block, block_delta, T) ==
    LET segment_tokens == SegmentTokens(start_block, start_block + block_delta, T)
        mps == RoundHalfEven(segment_tokens,
                             BShift(BFromInt(FrontDen * block_delta), FracLimbs))
    IN  IF BCmp(segment_tokens, <<0>>) > 0 THEN Max(1, mps) ELSE mps

\* the final phase as a fixed share instead of the residual
FinalTokens_FixedShare(cum_tokens) ==
    (TOTAL_TARGET * (FrontDen - FrontNum)) \div FrontDen

FinalTokens(cum_tokens) == TOTAL_TARGET - cum_tokens

\* ---------------------------------------------------------------------
\* State
\* ---------------------------------------------------------------------
VARIABLES
    pc,                  \* position of the tool call
    arguments,           \* the arguments of the call
    schedule,            \* generate_schedule: schedule
    blocks_for_segments, \* generate_schedule: blocks_for_segments
    durations,           \* calculate_block_durations: durations (block_durations)
    cumulative_blocks,   \* generate_schedule: cumulative_blocks
    cumulative_tokens,   \* generate_schedule: cumulative_tokens
    result               \* the payload call_tool returns

vars == << pc, arguments, schedule, blocks_for_segments, durations,
           cumulative_blocks, cumulative_tokens, result >>

NoResult ==
    [kind |-> "none", error |-> "none", schedule |-> << >>,
     total_phases |-> 0, total_mps |-> 0, final_block_mps |-> 0]

ErrorResult(e) == [NoResult EXCEPT !.kind = "error", !.error = e]

RECURSIVE SumSupply(_, _)
SumSupply(s, k) ==
    IF k = 0 THEN 0 ELSE s[k].mps * s[k].blockDelta + SumSupply(s, k - 1)

RECURSIVE SumBlocks(_, _)
SumBlocks(s, k) == IF k = 0 THEN 0 ELSE s[k].blockDelta + SumBlocks(s, k - 1)

Init ==
    /\ pc = "idle"
    /\ arguments = [auction_blocks |-> 0, prebid_blocks |-> 0]
    /\ schedule = << >>
    /\ blocks_for_segments = 0
    /\ durations = << >>
    /\ cumulative_blocks = 0
    /\ cumulative_tokens = 0
    /\ result = NoResult

\* a tool call arrives
Receive ==
    /\ pc \in {"idle", "done"}
    /\ \E req \in Requests :
           arguments' = [auction_blocks |-> req[1], prebid_blocks |-> req[2]]
    /\ pc' = "call_tool"
    /\ schedule' = << >>
    /\ blocks_for_segments' = 0
    /\ durations' = << >>
    /\ cumulative_blocks' = 0
    /\ cumulative_tokens' = 0
    /\ result' = NoResult

\* call_tool: GenerateScheduleInput(**arguments)
Validate ==
    /\ pc = "call_tool"
    /\ IF arguments.auction_blocks > 0 /\ arguments.prebid_blocks >= 0
       THEN /\ pc' = "generate_schedule"
            /\ result' = result
       ELSE /\ pc' = "done"
            /\ result' = ErrorResult("ValidationError")
    /\ UNCHANGED << arguments, schedule, blocks_for_segments, durations,
                    cumulative_blocks, cumulative_tokens >>

\* generate_schedule up to the call of calculate_block_durations
Begin ==
    /\ pc = "generate_schedule"
    /\ schedule' = PrebidPhases(arguments.prebid_blocks)
    /\ blocks_for_segments' = arguments.auction_blocks - 1
    /\ durations' = << >>
    /\ pc' = "durations"
    /\ UNCHANGED << arguments, cumulative_blocks, cumulative_tokens, result >>

\* calculate_block_durations: one iteration of the loop
DurationStep ==
    /\ pc = "durations"
    /\ Len(durations) < NUM_SEGMENTS
    /\ durations' = Append(durations,
                           DurationInt(blocks_for_segments, NUM_SEGMENTS, Len(durations)))
    /\ UNCHANGED << pc, arguments, schedule, blocks_for_segments,
                    cumulative_blocks, cumulative_tokens, result >>

\* calculate_block_durations: adjustment and return
DurationsReturn ==
    /\ pc = "durations"
    /\ Len(durations) = NUM_SEGMENTS
    /\ durations' = AdjustLast(durations, blocks_for_segments)
    /\ cumulative_blocks' = 0
    /\ cumulative_tokens' = 0
    /\ pc' = "segments"
    /\ UNCHANGED << arguments, schedule, blocks_for_segments, result >>

SegmentIndex == Len(schedule) - Len(PrebidPhases(arguments.prebid_blocks)) + 1

\* generate_schedule: one iteration of the segment loop
SegmentStep ==
    /\ pc = "segments"
    /\ SegmentIndex <= Len(durations)
    /\ blocks_for_segments # 0
    /\ \E block_delta \in { durations[SegmentIndex] } :
       \E mps \in { SegmentMps(cumulative_blocks, block_delta, blocks_for_segments) } :
           /\ schedule' = Append(schedule, Phase(mps, block_delta))
           /\ cumulative_blocks' = cumulative_blocks + block_delta
           /\ cumulative_tokens' = cumulative_tokens + mps * block_delta
    /\ UNCHANGED << pc, arguments, blocks_for_segments, durations, result >>

\* generate_schedule: start_block / blocks_for_segments raises
\* ZeroDivisionError, which call_tool catches and reports
SegmentDivideByZero ==
    /\ pc = "segments"
    /\ SegmentIndex <= Len(durations)
    /\ blocks_for_segments = 0
    /\ pc' = "done"
    /\ result' = ErrorResult("ZeroDivisionError")
    /\ UNCHANGED << arguments, schedule, blocks_for_segments, durations,
                    cumulative_blocks, cumulative_tokens >>

\* generate_schedule: the final phase and the return; call_tool: the summary
Finish ==
    /\ pc = "segments"
    /\ SegmentIndex > Len(durations)
    /\ LET final == Append(schedule, Phase(FinalTokens(cumulative_tokens), 1))
       IN  /\ schedule' = final
           /\ result' = [kind |-> "schedule", error |-> "none",
                         schedule |-> final,
                         total_phases |-> Len(final),
                         total_mps |-> SumSupply(final, Len(final)),
                         final_block_mps |-> final[Len(final)].mps]
    /\ pc' = "done"
    /\ UNCHANGED << arguments, blocks_for_segments, durations,
                    cumulative_blocks, cumulative_tokens >>

Next ==
    \/ Receive
    \/ Validate
    \/ Begin
    \/ DurationStep
    \/ DurationsReturn
    \/ SegmentStep
    \/ SegmentDivideByZero
    \/ Finish

Spec == Init /\ [][Next]_vars

\* a schedule has been returned to the caller
Returned == pc = "done" /\ result.kind = "schedule"

\* number of phases before the first segment phase
PrebidCount == Len(PrebidPhases(arguments.prebid_blocks))

\* the i-th segment phase (1-based) of the returned schedule
Segment(i) == result.schedule[PrebidCount + i]

FinalPhase == result.schedule[Len(result.schedule)]

\* ---------------------------------------------------------------------
\* Properties
\* ---------------------------------------------------------------------

\* C1: every returned schedule sums to TOTAL_TARGET exactly: the sum of
\* mps * blockDelta over all phases is TOTAL_TARGET, the prebid phase
\* contributes 0, and the final phase's mps is TOTAL_TARGET minus the sum
\* of rate * duration of the segment phases.
C1_ExactConservation ==
    Returned =>
        /\ SumSupply(result.schedule, Len(result.schedule)) = TOTAL_TARGET
        /\ result.total_mps = TOTAL_TARGET
        /\ SumSupply(result.schedule, PrebidCount) = 0
        /\ FinalPhase.mps =
               TOTAL_TARGET - (SumSupply(result.schedule, Len(result.schedule) - 1)
                               - SumSupply(result.schedule, PrebidCount))

C1_Witness ==
    /\ Returned
    /\ arguments = [auction_blocks |-> 86400, prebid_blocks |-> 43200]
    /\ FinalPhase.mps # 0

\* C2: the blockDelta of all phases of a returned schedule sum to
\* auctionBlocks, the planner's budget being auctionBlocks - prebidBlocks - 1.
C2_ExactBlockCoverage ==
    Returned =>
        /\ SumBlocks(result.schedule, Len(result.schedule)) = arguments.auction_blocks
        /\ blocks_for_segments = arguments.auction_blocks - arguments.prebid_blocks - 1

\* C3: with prebidBlocks > 0 the first phase is {mps: 0, blockDelta:
\* prebidBlocks} and the segments follow it; with prebidBlocks = 0 the first
\* phase is the first segment and its mps is not 0.
C3_PrebidShape ==
    Returned =>
        IF arguments.prebid_blocks > 0
        THEN /\ result.schedule[1] = Phase(0, arguments.prebid_blocks)
             /\ Len(result.schedule) = NUM_SEGMENTS + 2
             /\ result.schedule[2].blockDelta = durations[1]
        ELSE /\ Len(result.schedule) = NUM_SEGMENTS + 1
             /\ result.schedule[1].blockDelta = durations[1]
             /\ result.schedule[1].mps # 0

C3_Witness ==
    /\ Returned
    /\ arguments.prebid_blocks > 0
    /\ result.schedule[1].mps = 0
    /\ result.schedule[2].mps > 0

\* C4: a request with auctionBlocks <= prebidBlocks, or with fewer than
\* NUM_SEGMENTS + 1 blocks left after the prebid period, ends in an error
\* and returns no schedule.
C4_InsufficientBlocksRejected ==
    ( /\ pc = "done"
      /\ \/ arguments.auction_blocks <= arguments.prebid_blocks
         \/ arguments.auction_blocks - arguments.prebid_blocks < NUM_SEGMENTS + 1 )
    => (result.kind = "error" /\ result.schedule = << >>)

\* C5: a request with auctionBlocks <= 1 is rejected by validation before
\* any duration or curve computation, and never reaches a division by zero.
C5_DegenerateRejected ==
    (pc # "idle" /\ arguments.auction_blocks <= 1) =>
        /\ pc \in {"call_tool", "done"}
        /\ durations = << >>
        /\ result.error # "ZeroDivisionError"
        /\ pc = "done" => result.error = "ValidationError"

\* C6: the blockDelta of the NUM_SEGMENTS segment phases of a returned
\* schedule are non-decreasing, the corrected last segment included.
C6_MonotonicSegments ==
    Returned =>
        \A i \in 2..NUM_SEGMENTS : Segment(i).blockDelta >= Segment(i - 1).blockDelta

\* C7: auctionBlocks = NUM_SEGMENTS + 1 with prebidBlocks = 0 returns a
\* schedule whose supply sums to TOTAL_TARGET and whose blockDelta sum to
\* auctionBlocks.
C7_MinimalAuction ==
    ( /\ pc = "done"
      /\ arguments = [auction_blocks |-> NUM_SEGMENTS + 1, prebid_blocks |-> 0] )
    => /\ result.kind = "schedule"
       /\ SumSupply(result.schedule, Len(result.schedule)) = TOTAL_TARGET
       /\ SumBlocks(result.schedule, Len(result.schedule)) = arguments.auction_blocks

\* C8: every phase of a returned schedule has blockDelta >= 1 and mps >= 0.
C8_PhaseWellFormed ==
    Returned =>
        \A k \in 1..Len(result.schedule) :
            result.schedule[k].blockDelta >= 1 /\ result.schedule[k].mps >= 0

\* C9: for the tested requests (auctionBlocks 14400, 43200, 86400, 604800
\* with prebidBlocks 0, and 86400 with prebidBlocks 43200) the final phase's
\* mps is between 25% and 35% of TOTAL_TARGET.
C9_FinalBlockRange ==
    (Returned /\ <<arguments.auction_blocks, arguments.prebid_blocks>> \in TestedRequests)
    => /\ 25 * TOTAL_TARGET <= 100 * result.final_block_mps
       /\ 100 * result.final_block_mps <= 35 * TOTAL_TARGET
       /\ result.final_block_mps = FinalPhase.mps

C9_Witness ==
    /\ Returned
    /\ arguments = [auction_blocks |-> 604800, prebid_blocks |-> 0]
    /\ 25 * TOTAL_TARGET <= 100 * FinalPhase.mps

\* C10: when calculate_block_durations returns for a budget total_blocks > 0
\* it returns NUM_SEGMENTS integers, each >= 1, whose sum is total_blocks.
C10_PlannerContract ==
    (pc = "segments" /\ blocks_for_segments > 0) =>
        /\ Len(durations) = NUM_SEGMENTS
        /\ \A i \in 1..Len(durations) : durations[i] >= 1
        /\ SumSeq(durations, Len(durations)) = blocks_for_segments

====
